---- MODULE Spec2Model ----
(***************************************************************************)
(* A model of five classes of the mxgraph library:                         *)
(*   - mxGraphHierarchyEdge (layout/hierarchical/model), the internal edge *)
(*     of the hierarchical layout,                                         *)
(*   - mxDictionary (util/datatypes), a map keyed by object identity,      *)
(*   - mxSwimlaneManager (view/graph), which keeps swimlane sizes in step, *)
(*   - mxXmlRequest (util/network), a wrapper of XMLHttpRequest,           *)
(*   - mxCircleLayout (layout), which places vertices on a circle.         *)
(* Each class has its own specification over the shared variables:         *)
(*   Spec (the edge), DictSpec (the dictionary), ManagerSpec (the manager  *)
(*   and its listeners), XmlSpec (the request), GraphSpec (the operations  *)
(*   of the manager and of the layout that update a graph model).          *)
(*                                                                         *)
(* JavaScript values are records tagged with their type (see below); an    *)
(* array is read with Index (0-based, undefined outside the array).        *)
(***************************************************************************)
EXTENDS Integers, Sequences, FiniteSets, TLC

VARIABLES
    edge,        \* the mxGraphHierarchyEdge under observation (a record of its fields)
    built,       \* history: per adjacency cache, the endpoint it captured when it
                 \* was built and the value of invertCount then
    invertCount, \* history: number of invert() calls since construction
    dict,        \* mxDictionary.map: insertion-ordered sequence of [key, value]
    identity,    \* mxObjectIdentity: the ids given to objects and the counter
    ref,         \* history: the reference map the dictionary is compared with
    mgr,         \* the mxSwimlaneManager (a record of its fields)
    listeners,   \* per graph: mxEventSource.eventListeners as <<name, handler>> pairs
    xml,         \* the mxXmlRequest (a record of its fields)
    xhrs,        \* the XMLHttpRequest objects created so far, in order of creation
    calls,       \* history: the callbacks invoked so far, in order
    layout,      \* the mxCircleLayout (a record of its fields)
    model,       \* the graph model: its cells and its update level
    writes,      \* history: the number of operations run on the model, the update
                 \* level before the last one and the calls it made on the
                 \* model, each with the update level at the call
    last,        \* the last operation called, with its arguments
    ret          \* what the last operation returned

vars == <<edge, built, invertCount, dict, identity, ref, mgr, listeners,
          xml, xhrs, calls, layout, model, writes, last, ret>>

--------------------------------------------------------------------------
(* JavaScript values *)

\* A JavaScript value is a record tagged with its type, so that any two
\* values can be compared: null, undefined, a reference to an object, a
\* number, a boolean, a string, an array of values.
Null == [t |-> "null"]
Undefined == [t |-> "undefined"]
Ref(x) == [t |-> "object", v |-> x]
Num(n) == [t |-> "number", v |-> n]
Bool(b) == [t |-> "boolean", v |-> b]
Str(x) == [t |-> "string", v |-> x]
Arr(s) == [t |-> "array", v |-> s]
\* What a method without a return statement yields.
NoValue == Undefined
\* The reference an edge holds to itself (`this`).
This == Ref("this")

\* arr[i] of a JavaScript array, i counted from 0: undefined outside 0..length-1.
Index(arr, i) == IF i \in 0..(Len(arr.v) - 1) THEN arr.v[i + 1] ELSE Undefined

\* arr.length
Length(arr) == Len(arr.v)

\* arr[i] = v of a JavaScript array for i >= 0: a write past the end grows the
\* array, leaving holes (undefined) between the old end and i.
ArrayPut(arr, i, v) ==
    Arr([j \in 1..(IF i + 1 > Len(arr.v) THEN i + 1 ELSE Len(arr.v)) |->
            IF j = i + 1 THEN v
            ELSE IF j <= Len(arr.v) THEN arr.v[j] ELSE Undefined])

--------------------------------------------------------------------------
(* Bounds *)

\* Ranks run over 0..MaxRank.
MaxRank == 3
\* invert() is called at most MaxInverts times.
MaxInverts == 2

Nodes == {Ref("n1"), Ref("n2")}
GraphEdges == {Ref("e1"), Ref("e2")}
\* The values stored in scratch slots and in the dictionary.
Values == {Num(0), Num(1)}
Ranks == 0..MaxRank

--------------------------------------------------------------------------
(* mxObjectIdentity *)

\* A registry with no object identified yet: ids lists [obj, id] in the order
\* the ids were given.
NoIdentity == [ids |-> << >>, counter |-> 0]

\* The place of obj in the registry, 0 when it has no id yet.
IdentityOf(reg, obj) ==
    IF \E i \in 1..Len(reg.ids) : reg.ids[i].obj = obj
    THEN (CHOOSE i \in 1..Len(reg.ids) : reg.ids[i].obj = obj)
    ELSE 0

\* mxObjectIdentity.get(obj): the id stored on the object, made from the
\* counter on the first call; null for null. Yields the registry after the
\* call and the id (the string "<constructor>#<counter>", kept as Str(counter)).
mxObjectIdentityGet(reg, obj) ==
    IF obj = Null THEN [reg |-> reg, id |-> Null]
    ELSE IF IdentityOf(reg, obj) # 0
    THEN [reg |-> reg, id |-> reg.ids[IdentityOf(reg, obj)].id]
    ELSE [reg |-> [ids |-> Append(reg.ids, [obj |-> obj, id |-> Str(reg.counter)]),
                   counter |-> reg.counter + 1],
          id |-> Str(reg.counter)]

--------------------------------------------------------------------------
(* mxGraphHierarchyEdge *)

RECURSIVE IdsOf(_, _)
\* The constructor's loop: ids.push(mxObjectIdentity.get(edges[i])) for each i.
IdsOf(edges, reg) ==
    IF edges = << >> THEN << >>
    ELSE LET r == mxObjectIdentityGet(reg, Head(edges))
         IN  <<r.id>> \o IdsOf(Tail(edges), r.reg)

\* The number of ranks strictly between minRank and maxRank.
IntermediateRanks(minRank, maxRank) ==
    IF maxRank - minRank - 1 > 0 THEN maxRank - minRank - 1 ELSE 0

\* The fields an edge inherits from mxGraphAbstractHierarchyCell, as the
\* hierarchy model leaves them once the edge is ranked: the rank span, one
\* scratch slot per intermediate rank, and no adjacency cache yet.
mxGraphAbstractHierarchyCell(minRank, maxRank) ==
    [minRank |-> minRank,
     maxRank |-> maxRank,
     temp |-> Arr([i \in 1..IntermediateRanks(minRank, maxRank) |-> Num(0)]),
     nextLayerConnectedCells |-> Null,
     previousLayerConnectedCells |-> Null]

\* new mxGraphHierarchyEdge(edges) on the inherited fields, with the source
\* and target the hierarchy model connects it to.
NewEdge(edges, source, target, base) ==
    [edges |-> edges,
     ids |-> Arr(IdsOf(edges.v, NoIdentity)),
     source |-> source,
     target |-> target,
     isReversed |-> FALSE,
     minRank |-> base.minRank,
     maxRank |-> base.maxRank,
     temp |-> base.temp,
     nextLayerConnectedCells |-> base.nextLayerConnectedCells,
     previousLayerConnectedCells |-> base.previousLayerConnectedCells]

\* invert() without its temporary: the old source is lost.
invertKeepsTarget(e) ==
    [e EXCEPT !.source = e.target, !.isReversed = ~e.isReversed]

\* invert() that also drops the adjacency caches.
invertInvalidatesCaches(e) ==
    [e EXCEPT !.source = e.target, !.target = e.source,
              !.isReversed = ~e.isReversed,
              !.nextLayerConnectedCells = Null,
              !.previousLayerConnectedCells = Null]

\* invert() that sets isReversed instead of toggling it.
invertSetsReversed(e) ==
    [e EXCEPT !.source = e.target, !.target = e.source, !.isReversed = TRUE]

\* invert(): swaps source and target and toggles isReversed.
invert(e) ==
    [e EXCEPT !.source = e.target, !.target = e.source,
              !.isReversed = ~e.isReversed]

\* The loop of getNextLayerConnectedCells with the source in the first list.
BuildNextSourceFirst(e) ==
    Arr([i \in 1..Length(e.temp) |->
            IF i - 1 = 0 THEN Arr(<<e.source>>) ELSE Arr(<<This>>)])

\* The loop of getNextLayerConnectedCells: one list per slot of temp, the
\* last holding the source, the others the edge itself.
BuildNextLayerConnectedCells(e) ==
    Arr([i \in 1..Length(e.temp) |->
            IF i - 1 = Length(e.temp) - 1 THEN Arr(<<e.source>>) ELSE Arr(<<This>>)])

\* The loop of getPreviousLayerConnectedCells with the target in the last list.
BuildPreviousTargetLast(e) ==
    Arr([i \in 1..Length(e.temp) |->
            IF i - 1 = Length(e.temp) - 1 THEN Arr(<<e.target>>) ELSE Arr(<<This>>)])

\* The loop of getPreviousLayerConnectedCells: the first list holds the
\* target, the others the edge itself.
BuildPreviousLayerConnectedCells(e) ==
    Arr([i \in 1..Length(e.temp) |->
            IF i - 1 = 0 THEN Arr(<<e.target>>) ELSE Arr(<<This>>)])

\* getNextLayerConnectedCells(layer) indexing with layer - minRank.
getNextOffByOne(e, layer) ==
    LET cells == IF e.nextLayerConnectedCells = Null
                 THEN BuildNextLayerConnectedCells(e)
                 ELSE e.nextLayerConnectedCells
    IN  [obj |-> [e EXCEPT !.nextLayerConnectedCells = cells],
         ret |-> Index(cells, layer - e.minRank)]

\* getNextLayerConnectedCells(layer): builds the cache on the first call and
\* returns its entry for the layer. Yields the edge after the call and the
\* value returned.
getNextLayerConnectedCells(e, layer) ==
    LET cells == IF e.nextLayerConnectedCells = Null
                 THEN BuildNextLayerConnectedCells(e)
                 ELSE e.nextLayerConnectedCells
    IN  [obj |-> [e EXCEPT !.nextLayerConnectedCells = cells],
         ret |-> Index(cells, layer - e.minRank - 1)]

\* getPreviousLayerConnectedCells(layer): as getNextLayerConnectedCells, on
\* the other cache.
getPreviousLayerConnectedCells(e, layer) ==
    LET cells == IF e.previousLayerConnectedCells = Null
                 THEN BuildPreviousLayerConnectedCells(e)
                 ELSE e.previousLayerConnectedCells
    IN  [obj |-> [e EXCEPT !.previousLayerConnectedCells = cells],
         ret |-> Index(cells, layer - e.minRank - 1)]

\* isEdge(): true.
isEdge(e) == Bool(TRUE)

\* getGeneralPurposeVariable(layer): temp[layer - minRank - 1].
getGeneralPurposeVariable(e, layer) == Index(e.temp, layer - e.minRank - 1)

\* setGeneralPurposeVariable(layer, value) indexing with layer - minRank.
setGeneralPurposeVariableOffByOne(e, layer, value) ==
    [e EXCEPT !.temp = ArrayPut(e.temp, layer - e.minRank, value)]

\* setGeneralPurposeVariable(layer, value): temp[layer - minRank - 1] = value
\* (called here with layer > minRank only, so the index is never negative).
setGeneralPurposeVariable(e, layer, value) ==
    [e EXCEPT !.temp = ArrayPut(e.temp, layer - e.minRank - 1, value)]

\* getCoreCell() returning the last wrapped edge.
getCoreCellLast(e) ==
    IF e.edges # Null /\ Length(e.edges) > 0
    THEN Index(e.edges, Length(e.edges) - 1) ELSE Null

\* getCoreCell(): edges[0], or null when edges is null or empty.
getCoreCell(e) ==
    IF e.edges # Null /\ Length(e.edges) > 0 THEN Index(e.edges, 0) ELSE Null

--------------------------------------------------------------------------
(* The edge's specification *)

\* The lists of graph edges an edge may be constructed from: every array of
\* distinct graph edges.
EdgeLists ==
    {Arr(s) : s \in {q \in UNION {[1..n -> GraphEdges] : n \in 0..Cardinality(GraphEdges)} :
                        \A i, j \in DOMAIN q : q[i] = q[j] => i = j}}

\* The edge's direction.
Direction(e) == <<e.source, e.target, e.isReversed>>

\* The record of a call: the operation and its arguments; for invert also
\* the number of invert() calls in succession ending with this one (run) and
\* the edge's direction before the first of them (start).
Op(op, args) == [op |-> op, args |-> args, run |-> 0, start |-> << >>]

InvertOp ==
    IF last.op = "invert"
    THEN [op |-> "invert", args |-> << >>, run |-> last.run + 1, start |-> last.start]
    ELSE [op |-> "invert", args |-> << >>, run |-> 1, start |-> Direction(edge)]

\* The variables of the other classes, at rest.
DictAtRest == dict = << >> /\ identity = NoIdentity /\ ref = << >>
ManagerAtRest == mgr = Null /\ listeners = << >>
EdgeAtRest == edge = Null /\ built = Null /\ invertCount = 0
EdgeVars == <<edge, built, invertCount>>
DictVars == <<dict, identity, ref>>
ManagerVars == <<mgr, listeners>>
XmlAtRest == xml = Null /\ xhrs = << >> /\ calls = << >>
GraphAtRest == layout = Null /\ model = Null /\ writes = Null
XmlVars == <<xml, xhrs, calls>>
GraphVars == <<layout, model, writes>>

\* No adjacency cache built yet.
NotBuilt == [cell |-> Null, at |-> 0]

Init ==
    \* Nodes are interchangeable: the source is n1, the target either node.
    /\ \E edges \in EdgeLists, source \in {Ref("n1")}, target \in Nodes,
          minRank \in Ranks, maxRank \in Ranks :
          /\ minRank <= maxRank
          /\ edge = NewEdge(edges, source, target,
                            mxGraphAbstractHierarchyCell(minRank, maxRank))
    /\ built = [next |-> NotBuilt, previous |-> NotBuilt]
    /\ invertCount = 0
    /\ last = Op("new", << >>)
    /\ ret = NoValue
    /\ DictAtRest
    /\ ManagerAtRest
    /\ XmlAtRest
    /\ GraphAtRest

\* A call on the edge: e is the edge after it and r what it returned.
EdgeStep(op, e, r) ==
    /\ edge' = e
    /\ last' = op
    /\ ret' = r
    /\ UNCHANGED <<DictVars, ManagerVars, XmlVars, GraphVars>>

Invert ==
    /\ invertCount < MaxInverts
    /\ invertCount' = invertCount + 1
    /\ UNCHANGED built
    /\ EdgeStep(InvertOp, invert(edge), NoValue)

GetNextLayerConnectedCells ==
    \E layer \in edge.minRank..edge.maxRank :
        LET r == getNextLayerConnectedCells(edge, layer) IN
        /\ built' = IF edge.nextLayerConnectedCells = Null
                    THEN [built EXCEPT !.next = [cell |-> edge.source, at |-> invertCount]]
                    ELSE built
        /\ UNCHANGED invertCount
        /\ EdgeStep(Op("getNextLayerConnectedCells", <<layer>>), r.obj, r.ret)

GetPreviousLayerConnectedCells ==
    \E layer \in edge.minRank..edge.maxRank :
        LET r == getPreviousLayerConnectedCells(edge, layer) IN
        /\ built' = IF edge.previousLayerConnectedCells = Null
                    THEN [built EXCEPT !.previous = [cell |-> edge.target, at |-> invertCount]]
                    ELSE built
        /\ UNCHANGED invertCount
        /\ EdgeStep(Op("getPreviousLayerConnectedCells", <<layer>>), r.obj, r.ret)

GetGeneralPurposeVariable ==
    \E layer \in edge.minRank..edge.maxRank :
        /\ UNCHANGED <<built, invertCount>>
        /\ EdgeStep(Op("getGeneralPurposeVariable", <<layer>>), edge,
                    getGeneralPurposeVariable(edge, layer))

SetGeneralPurposeVariable ==
    \E layer \in (edge.minRank + 1)..(edge.maxRank - 1), value \in Values :
        /\ UNCHANGED <<built, invertCount>>
        /\ EdgeStep(Op("setGeneralPurposeVariable", <<layer, value>>),
                    setGeneralPurposeVariable(edge, layer, value), NoValue)

GetCoreCell ==
    /\ UNCHANGED <<built, invertCount>>
    /\ EdgeStep(Op("getCoreCell", << >>), edge, getCoreCell(edge))

IsEdge ==
    /\ UNCHANGED <<built, invertCount>>
    /\ EdgeStep(Op("isEdge", << >>), edge, isEdge(edge))

Next ==
    \/ Invert
    \/ GetNextLayerConnectedCells
    \/ GetPreviousLayerConnectedCells
    \/ GetGeneralPurposeVariable
    \/ SetGeneralPurposeVariable
    \/ GetCoreCell
    \/ IsEdge

Spec == Init /\ [][Next]_vars

--------------------------------------------------------------------------
(* mxDictionary *)

\* The keys used: objects, each with its own identity.
DictKeys == {Ref("k1"), Ref("k2"), Ref("k3")}

\* A JavaScript object used as a map from strings: its properties in the
\* order they were first set, as [k, v] records.
ObjHas(o, k) == \E i \in 1..Len(o) : o[i].k = k

\* o[k]
ObjGet(o, k) ==
    IF ObjHas(o, k) THEN o[CHOOSE i \in 1..Len(o) : o[i].k = k].v ELSE Undefined

\* o[k] = v: an existing property keeps its place.
ObjSet(o, k, v) ==
    IF ObjHas(o, k)
    THEN [i \in 1..Len(o) |-> IF o[i].k = k THEN [k |-> k, v |-> v] ELSE o[i]]
    ELSE Append(o, [k |-> k, v |-> v])

\* delete o[k]
ObjDelete(o, k) == SelectSeq(o, LAMBDA p : p.k # k)

\* clear(): map = {}.
clear(map) == << >>

\* get(key): map[mxObjectIdentity.get(key)]. Yields the registry after the
\* call (the key may receive its id here) and the value returned.
get(map, reg, key) ==
    LET r == mxObjectIdentityGet(reg, key)
    IN  [map |-> map, reg |-> r.reg, ret |-> ObjGet(map, r.id)]

\* put(key, value): stores the value and returns the previous one.
put(map, reg, key, value) ==
    LET r == mxObjectIdentityGet(reg, key)
    IN  [map |-> ObjSet(map, r.id, value), reg |-> r.reg, ret |-> ObjGet(map, r.id)]

\* remove(key) without the delete.
removeKeepsEntry(map, reg, key) ==
    LET r == mxObjectIdentityGet(reg, key)
    IN  [map |-> map, reg |-> r.reg, ret |-> ObjGet(map, r.id)]

\* remove(key): deletes the entry and returns the value it held.
remove(map, reg, key) ==
    LET r == mxObjectIdentityGet(reg, key)
    IN  [map |-> ObjDelete(map, r.id), reg |-> r.reg, ret |-> ObjGet(map, r.id)]

\* getKeys(): the keys (the id strings) in the map's order.
getKeys(map) == Arr([i \in 1..Len(map) |-> map[i].k])

\* getValues(): the values in the map's order.
getValues(map) == Arr([i \in 1..Len(map) |-> map[i].v])

\* visit(visitor): the calls visitor(key, value) made, in order.
visit(map) == Arr([i \in 1..Len(map) |-> Arr(<<map[i].k, map[i].v>>)])

\* What get(key) would return in the current state.
Lookup(key) == get(dict, identity, key).ret

DictInit ==
    /\ dict = clear(<< >>)
    /\ identity = NoIdentity
    /\ ref = [k \in DictKeys |-> Undefined]
    /\ last = Op("new", << >>)
    /\ ret = NoValue
    /\ EdgeAtRest
    /\ ManagerAtRest
    /\ XmlAtRest
    /\ GraphAtRest

\* A call on the dictionary: r is the operation's result, m the reference
\* map after it.
DictStep(op, r, m) ==
    /\ dict' = r.map
    /\ identity' = r.reg
    /\ ret' = r.ret
    /\ ref' = m
    /\ last' = op
    /\ UNCHANGED <<EdgeVars, ManagerVars, XmlVars, GraphVars>>

DictClear ==
    DictStep(Op("clear", << >>),
             [map |-> clear(dict), reg |-> identity, ret |-> NoValue],
             [k \in DictKeys |-> Undefined])

DictGet ==
    \E key \in DictKeys :
        DictStep(Op("get", <<key>>), get(dict, identity, key), ref)

DictPut ==
    \E key \in DictKeys, value \in Values :
        DictStep(Op("put", <<key, value>>), put(dict, identity, key, value),
                 [ref EXCEPT ![key] = value])

DictRemove ==
    \E key \in DictKeys :
        DictStep(Op("remove", <<key>>), remove(dict, identity, key),
                 [ref EXCEPT ![key] = Undefined])

DictGetKeys ==
    DictStep(Op("getKeys", << >>),
             [map |-> dict, reg |-> identity, ret |-> getKeys(dict)], ref)

DictGetValues ==
    DictStep(Op("getValues", << >>),
             [map |-> dict, reg |-> identity, ret |-> getValues(dict)], ref)

DictVisit ==
    DictStep(Op("visit", << >>),
             [map |-> dict, reg |-> identity, ret |-> visit(dict)], ref)

DictNext ==
    \/ DictClear
    \/ DictGet
    \/ DictPut
    \/ DictRemove
    \/ DictGetKeys
    \/ DictGetValues
    \/ DictVisit

DictSpec == DictInit /\ [][DictNext]_vars

--------------------------------------------------------------------------
(* mxEventSource, mxEvent, mxUtils, mxConstants, mxGraph: what the manager
   uses of them *)

\* mxEvent.ADD_CELLS and mxEvent.CELLS_RESIZED.
ADD_CELLS == Str("addCells")
CELLS_RESIZED == Str("cellsResized")

\* addListener(name, funct): appends the pair to eventListeners.
addListener(ls, name, funct) == Append(ls, [name |-> name, f |-> funct])

\* removeListener(funct): drops every pair that holds funct.
removeListener(ls, funct) == SelectSeq(ls, LAMBDA p : p.f # funct)

\* mxUtils.getValue(array, key, defaultValue), given array[key]: the default
\* when the entry is null or undefined.
getValue(entry, defaultValue) ==
    IF entry = Null \/ entry = Undefined THEN defaultValue ELSE entry

\* x == 1 in JavaScript, for the values a style entry takes here.
LooselyEqualsOne(x) == x \in {Num(1), Bool(TRUE), Str("1")}

\* What a failed call throws.
Thrown(x) == [t |-> "thrown", v |-> x]

--------------------------------------------------------------------------
(* mxSwimlaneManager *)

Graphs == {Ref("g1"), Ref("g2")}

\* A cell as the manager sees it through the graph: whether
\* graph.isSwimlane(cell) holds, and the entry of graph.getCellStyle(cell)
\* under mxConstants.STYLE_HORIZONTAL.
Cells == [swimlane : BOOLEAN, style : {Undefined, Num(0), Num(1)}]

\* isEnabled(), isHorizontal(), isAddEnabled(), isResizeEnabled(), getGraph().
isEnabled(m) == m.enabled
isHorizontal(m) == m.horizontal
isAddEnabled(m) == m.addEnabled
isResizeEnabled(m) == m.resizeEnabled
getGraph(m) == m.graph

\* setEnabled(value), setHorizontal(value), setAddEnabled(value),
\* setResizeEnabled(value).
setEnabled(m, value) == [m EXCEPT !.enabled = value]
setHorizontal(m, value) == [m EXCEPT !.horizontal = value]
setAddEnabled(m, value) == [m EXCEPT !.addEnabled = value]
setResizeEnabled(m, value) == [m EXCEPT !.resizeEnabled = value]

\* setGraph(graph) that leaves the handlers on the graph held before.
setGraphKeepsOld(m, ls, graph) ==
    [mgr |-> [m EXCEPT !.graph = graph],
     listeners |-> IF graph # Null
                   THEN [ls EXCEPT ![graph] =
                            addListener(addListener(@, ADD_CELLS, m.addHandler),
                                        CELLS_RESIZED, m.resizeHandler)]
                   ELSE ls]

\* setGraph(graph): takes the two handlers off the graph held, holds the new
\* graph and, unless it is null, registers the handlers on it. Yields the
\* manager and every graph's listeners after the call.
setGraph(m, ls, graph) ==
    LET removed == IF m.graph # Null
                   THEN [ls EXCEPT ![m.graph] =
                            removeListener(removeListener(@, m.addHandler),
                                           m.resizeHandler)]
                   ELSE ls
        added == IF graph # Null
                 THEN [removed EXCEPT ![graph] =
                          addListener(addListener(@, ADD_CELLS, m.addHandler),
                                      CELLS_RESIZED, m.resizeHandler)]
                 ELSE removed
    IN  [mgr |-> [m EXCEPT !.graph = graph], listeners |-> added]

\* destroy(): setGraph(null).
destroy(m, ls) == setGraph(m, ls, Null)

\* new mxSwimlaneManager(graph, horizontal, addEnabled, resizeEnabled).
mxSwimlaneManager(ls, graph, horizontal, addEnabled, resizeEnabled) ==
    setGraph([graph |-> Null,
              enabled |-> TRUE,
              horizontal |-> horizontal,
              addEnabled |-> addEnabled,
              resizeEnabled |-> resizeEnabled,
              addHandler |-> Ref("addHandler"),
              resizeHandler |-> Ref("resizeHandler")],
             ls, graph)

\* isCellHorizontal(cell): for a swimlane, whether its style's horizontal
\* entry (default 1) == 1; otherwise !isHorizontal(). Throws a TypeError
\* when the manager holds no graph.
isCellHorizontal(m, cell) ==
    IF m.graph = Null THEN Thrown("TypeError")
    ELSE IF cell.swimlane
    THEN Bool(LooselyEqualsOne(getValue(cell.style, Num(1))))
    ELSE Bool(~isHorizontal(m))

ManagerInit ==
    /\ \E graph \in Graphs \cup {Null},
          horizontal \in BOOLEAN, addEnabled \in BOOLEAN, resizeEnabled \in BOOLEAN :
          LET other == [g \in Graphs |-> addListener(<< >>, ADD_CELLS, Ref("other"))]
              m == mxSwimlaneManager(other, graph, horizontal, addEnabled, resizeEnabled)
          IN  mgr = m.mgr /\ listeners = m.listeners
    /\ last = Op("new", << >>)
    /\ ret = NoValue
    /\ EdgeAtRest
    /\ DictAtRest
    /\ XmlAtRest
    /\ GraphAtRest

\* A call on the manager: m is the manager after it, ls the graphs'
\* listeners after it and r what it returned.
ManagerStep(op, m, ls, r) ==
    /\ mgr' = m
    /\ listeners' = ls
    /\ last' = op
    /\ ret' = r
    /\ UNCHANGED <<EdgeVars, DictVars, XmlVars, GraphVars>>

SetGraph ==
    \E graph \in Graphs \cup {Null} :
        LET r == setGraph(mgr, listeners, graph)
        IN  ManagerStep(Op("setGraph", <<graph>>), r.mgr, r.listeners, NoValue)

Destroy ==
    LET r == destroy(mgr, listeners)
    IN  ManagerStep(Op("destroy", << >>), r.mgr, r.listeners, NoValue)

GetGraph ==
    ManagerStep(Op("getGraph", << >>), mgr, listeners, getGraph(mgr))

SetEnabled ==
    \E value \in BOOLEAN :
        ManagerStep(Op("setEnabled", <<value>>), setEnabled(mgr, value), listeners, NoValue)

SetHorizontal ==
    \E value \in BOOLEAN :
        ManagerStep(Op("setHorizontal", <<value>>), setHorizontal(mgr, value), listeners,
                    NoValue)

SetAddEnabled ==
    \E value \in BOOLEAN :
        ManagerStep(Op("setAddEnabled", <<value>>), setAddEnabled(mgr, value), listeners,
                    NoValue)

SetResizeEnabled ==
    \E value \in BOOLEAN :
        ManagerStep(Op("setResizeEnabled", <<value>>), setResizeEnabled(mgr, value),
                    listeners, NoValue)

IsHorizontal ==
    ManagerStep(Op("isHorizontal", << >>), mgr, listeners, Bool(isHorizontal(mgr)))

IsCellHorizontal ==
    \E cell \in Cells :
        ManagerStep(Op("isCellHorizontal", <<cell>>), mgr, listeners,
                    isCellHorizontal(mgr, cell))

ManagerNext ==
    \/ SetGraph
    \/ Destroy
    \/ GetGraph
    \/ SetEnabled
    \/ SetHorizontal
    \/ SetAddEnabled
    \/ SetResizeEnabled
    \/ IsHorizontal
    \/ IsCellHorizontal

ManagerSpec == ManagerInit /\ [][ManagerNext]_vars

--------------------------------------------------------------------------
(* mxXmlRequest *)

\* send() is called at most MaxSends times on the request.
MaxSends == 1
\* At most MaxCalls invocations of callbacks are followed.
MaxCalls == 2

\* x == null, which holds of null and of undefined.
IsNullish(x) == x = Null \/ x = Undefined

\* The values that count as false in a condition and on the left of ||.
Falsy(x) == x \in {Null, Undefined, Bool(FALSE), Num(0), Str("")}

\* The reference to the i-th XMLHttpRequest created.
Xhr(i) == [t |-> "xhr", v |-> i]

\* A function value: the arrow function that send() installs as
\* onreadystatechange, closed over the onload it was given (and over this).
Function(onload) == [t |-> "function", onload |-> onload]

\* new XMLHttpRequest(): the browser's request object, unsent.
XMLHttpRequest ==
    [readyState |-> 0, onreadystatechange |-> Null, mimeType |-> Null,
     opened |-> Null, headers |-> << >>, withCredentials |-> Bool(FALSE),
     timeout |-> Null, ontimeout |-> Null, sent |-> FALSE, body |-> Null]

\* constructor(url, params, method, async, username, password) and the
\* initial values of the fields.
mxXmlRequest(url, params, method, async, username, password) ==
    [url |-> url,
     params |-> params,
     method |-> IF Falsy(method) THEN Str("POST") ELSE method,
     async |-> IF ~IsNullish(async) THEN async ELSE Bool(TRUE),
     username |-> username,
     password |-> password,
     binary |-> FALSE,
     withCredentials |-> FALSE,
     request |-> Null,
     decodeSimulateValues |-> FALSE]

isBinary(x) == x.binary

setBinary(x, value) == [x EXCEPT !.binary = value]

\* isReady(): this.request.readyState === 4, of the request the wrapper
\* holds at the time of the call.
isReady(x, xs) == xs[x.request.v].readyState = 4

\* create(): a new XMLHttpRequest, with the mime type overridden when binary
\* and the browser's request object has overrideMimeType (overrideMimeType
\* tells whether req.overrideMimeType is there).
create(x, overrideMimeType) ==
    IF isBinary(x) /\ overrideMimeType
    THEN [XMLHttpRequest EXCEPT !.mimeType = Str("text/plain; charset=x-user-defined")]
    ELSE XMLHttpRequest

\* setRequestHeaders(request, params)
setRequestHeaders(request, params) ==
    IF ~IsNullish(params)
    THEN [request EXCEPT !.headers =
            Append(@, <<Str("Content-Type"), Str("application/x-www-form-urlencoded")>>)]
    ELSE request

\* The handler with the line that clears it left out.
onreadystatechangeKept(x, xs, cs, onload, outcome) ==
    IF isReady(x, xs)
    THEN [xhrs |-> xs,
          calls |-> Append(cs, [f |-> onload, arg |-> This,
                                readyState |-> xs[x.request.v].readyState,
                                outcome |-> outcome])]
    ELSE [xhrs |-> xs, calls |-> cs]

\* The handler that send() installs: when the wrapper's request is ready it
\* calls onload(this) and then clears the handler of the wrapper's request.
\* outcome tells whether onload returns or throws; when it throws, the
\* statement after the call is not reached.
onreadystatechange(x, xs, cs, onload, outcome) ==
    IF isReady(x, xs)
    THEN [xhrs |-> IF outcome = "return"
                   THEN [xs EXCEPT ![x.request.v].onreadystatechange = Null]
                   ELSE xs,
          calls |-> Append(cs, [f |-> onload, arg |-> This,
                                readyState |-> xs[x.request.v].readyState,
                                outcome |-> outcome])]
    ELSE [xhrs |-> xs, calls |-> cs]

\* The browser fires readystatechange on the i-th XMLHttpRequest: its
\* handler, if it has one, runs.
Dispatch(x, xs, cs, i, outcome) ==
    IF xs[i].onreadystatechange = Null
    THEN [xhrs |-> xs, calls |-> cs]
    ELSE onreadystatechange(x, xs, cs, xs[i].onreadystatechange.onload, outcome)

\* send(onload, onerror, timeout, ontimeout). documentMode is the browser's
\* document.documentMode and overrideMimeType tells whether its request
\* objects have overrideMimeType; window.XMLHttpRequest exists. open() moves the
\* request to readyState 1 (the event it fires finds the request not ready).
\* A synchronous request completes inside request.send(), which fires
\* readystatechange with readyState 4 before it returns.
send(x, xs, cs, onload, onerror, timeout, ontimeout, documentMode, overrideMimeType, outcome) ==
    LET i == Len(xs) + 1
        x1 == [x EXCEPT !.request = Xhr(i)]
        r0 == create(x, overrideMimeType)
        r1 == IF ~IsNullish(onload)
              THEN [r0 EXCEPT !.onreadystatechange = Function(onload)]
              ELSE r0
        r2 == [r1 EXCEPT !.readyState = 1,
                         !.opened = <<x.method, x.url, x.async, x.username, x.password>>]
        r3 == setRequestHeaders(r2, x.params)
        r4 == IF x.withCredentials
              THEN [r3 EXCEPT !.withCredentials = Str("true")]
              ELSE r3
        r5 == IF IsNullish(documentMode) /\ ~IsNullish(timeout) /\ ~IsNullish(ontimeout)
              THEN [r4 EXCEPT !.timeout = timeout, !.ontimeout = ontimeout]
              ELSE r4
        r6 == [r5 EXCEPT !.sent = TRUE, !.body = x.params]
        xs1 == Append(xs, r6)
    IN  IF Falsy(x.async)
        THEN LET d == Dispatch(x1, [xs1 EXCEPT ![i].readyState = 4], cs, i, outcome)
             IN  [xml |-> x1, xhrs |-> d.xhrs, calls |-> d.calls]
        ELSE [xml |-> x1, xhrs |-> xs1, calls |-> cs]

--------------------------------------------------------------------------
(* The request's specification *)

Callbacks == [onload : {Null, Ref("onload")}, onerror : {Null, Ref("onerror")}]
Timeouts == {[timeout |-> Undefined, ontimeout |-> Undefined, documentMode |-> Undefined],
             [timeout |-> Num(1000), ontimeout |-> Ref("ontimeout"), documentMode |-> Undefined],
             [timeout |-> Num(1000), ontimeout |-> Ref("ontimeout"), documentMode |-> Num(11)]}
Outcomes == {"return", "throw"}

XmlInit ==
    /\ \E params \in {Null, Str("key=value")}, async \in {Undefined, Bool(FALSE)} :
          xml = mxXmlRequest(Str("url"), params, Undefined, async, Undefined, Undefined)
    /\ xhrs = << >>
    /\ calls = << >>
    /\ last = Op("new", << >>)
    /\ ret = NoValue
    /\ EdgeAtRest
    /\ DictAtRest
    /\ ManagerAtRest
    /\ GraphAtRest

\* A step of the request: x is the wrapper after it, xs the XMLHttpRequest
\* objects, cs the callbacks invoked so far and r what the step returned.
XmlStep(op, x, xs, cs, r) ==
    /\ Len(cs) <= MaxCalls
    /\ xml' = x
    /\ xhrs' = xs
    /\ calls' = cs
    /\ last' = op
    /\ ret' = r
    /\ UNCHANGED <<EdgeVars, DictVars, ManagerVars, GraphVars>>

XmlSend ==
    /\ Len(xhrs) < MaxSends
    /\ \E cb \in Callbacks, tm \in Timeouts, overrideMimeType \in BOOLEAN,
          outcome \in Outcomes :
          LET r == send(xml, xhrs, calls, cb.onload, cb.onerror,
                        tm.timeout, tm.ontimeout, tm.documentMode, overrideMimeType,
                        outcome)
          IN  XmlStep(Op("send", <<cb.onload, cb.onerror>>), r.xml, r.xhrs, r.calls, NoValue)

\* The browser advances an asynchronous request that was sent and fires
\* readystatechange; the event may also arrive again in the same readyState.
XmlReadyStateChange ==
    \E i \in DOMAIN xhrs, s \in 2..4, outcome \in Outcomes :
        /\ xhrs[i].sent
        /\ ~Falsy(xhrs[i].opened[3])
        /\ s >= xhrs[i].readyState
        /\ LET r == Dispatch(xml, [xhrs EXCEPT ![i].readyState = s], calls, i, outcome)
           IN  XmlStep(Op("readystatechange", <<i, s, Len(r.calls) > Len(calls)>>),
                       xml, r.xhrs, r.calls, NoValue)

XmlSetBinary ==
    \E value \in BOOLEAN :
        XmlStep(Op("setBinary", <<value>>), setBinary(xml, value), xhrs, calls, NoValue)

XmlIsBinary ==
    XmlStep(Op("isBinary", << >>), xml, xhrs, calls, Bool(isBinary(xml)))

XmlIsReady ==
    XmlStep(Op("isReady", << >>), xml, xhrs, calls,
            IF xml.request = Null THEN Thrown("TypeError") ELSE Bool(isReady(xml, xhrs)))

XmlNext ==
    \/ XmlSend
    \/ XmlReadyStateChange
    \/ XmlSetBinary
    \/ XmlIsBinary
    \/ XmlIsReady

XmlSpec == XmlInit /\ [][XmlNext]_vars

--------------------------------------------------------------------------
(* The graph model (mxGraphModel, mxGraph) *)

\* The graph model is a record of its update level and of its cells; a cell
\* is named by a reference, and has a parent, children, a geometry (null or
\* x, y, width, height and the number of points of an edge) and a style.
\* The running operation is a record (an execution) of the model, of the
\* calls made so far on the model, each with the update level at the
\* call, of the number of steps after which a step throws (fuel; 0 if none
\* does) and of whether an exception is propagating (thrown).

\* The update level of the model before an operation: outside of any update,
\* or inside one.
Levels == {0, 1}
\* A layout parent has at most MaxChildren children.
MaxChildren == 2
\* At most MaxOps operations are run on a model.
MaxOps == 1

Execution(m, fuel) == [model |-> m, log |-> << >>, fuel |-> fuel, thrown |-> FALSE]

\* A step that may throw: it throws when the fuel runs out.
Step(st) ==
    IF st.thrown \/ st.fuel = 0 THEN st
    ELSE IF st.fuel = 1 THEN [st EXCEPT !.fuel = 0, !.thrown = TRUE]
    ELSE [st EXCEPT !.fuel = @ - 1]

\* The record of a call on the model: of beginUpdate() or endUpdate(), or of
\* a call that modifies a cell (wrote) or finds nothing to modify.
Logged(st, call, cell, wrote) ==
    Append(st.log, [call |-> call, cell |-> cell,
                    level |-> st.model.updateLevel, wrote |-> wrote])

\* model.beginUpdate(), model.endUpdate()
beginUpdate(st) ==
    [st EXCEPT !.model.updateLevel = @ + 1,
               !.log = Logged(st, "beginUpdate", Null, FALSE)]
endUpdate(st) ==
    [st EXCEPT !.model.updateLevel = @ - 1,
               !.log = Logged(st, "endUpdate", Null, FALSE)]

\* model.getParent(cell), model.getChildCount(cell), model.getChildAt(cell, i),
\* model.getGeometry(cell)
getParent(m, cell) == IF cell = Null THEN Null ELSE m.cells[cell].parent
getChildCount(m, cell) == IF cell = Null THEN 0 ELSE Len(m.cells[cell].children)
getChildAt(m, cell, i) == m.cells[cell].children[i + 1]
getGeometry(m, cell) == IF cell = Null THEN Null ELSE m.cells[cell].geometry

\* model.setGeometry(cell, geometry): replaces the geometry if it differs.
setGeometry(st, cell, geometry) ==
    [st EXCEPT !.model.cells[cell].geometry = geometry,
               !.log = Logged(st, "setGeometry", cell, st.model.cells[cell].geometry # geometry)]

\* graph.isSwimlane(cell), graph.getStartSize(swimlane), graph.getCellStyle(cell)
isSwimlane(m, cell) == IF cell = Null THEN FALSE ELSE m.cells[cell].swimlane
getStartSize(m, swimlane) == m.cells[swimlane].startSize
getCellStyle(m, cell) == IF cell = Null THEN Undefined ELSE m.cells[cell].style

\* new mxRectangle(): the empty rectangle
mxRectangle == [width |-> 0, height |-> 0]

\* graph.resetEdge(edge): removes the points of the edge, if it has any.
resetEdge(st, e) ==
    LET geo == getGeometry(st.model, e)
    IN  IF geo # Null /\ geo.points > 0
        THEN [st EXCEPT !.model.cells[e].geometry.points = 0,
                        !.log = Logged(st, "resetEdge", e, TRUE)]
        ELSE [st EXCEPT !.log = Logged(st, "resetEdge", e, FALSE)]

--------------------------------------------------------------------------
(* mxGraphLayout, the base class of mxCircleLayout *)

\* isVertexIgnored(vertex), isEdgeIgnored(edge), isVertexMovable(cell)
isVertexIgnored(m, vertex) == ~m.cells[vertex].vertex \/ ~m.cells[vertex].visible
isEdgeIgnored(m, e) ==
    ~m.cells[e].edge \/ ~m.cells[e].visible \/ ~m.cells[e].connected
isVertexMovable(m, cell) == m.cells[cell].movable

\* getVertexBounds(cell): the geometry of the vertex
getVertexBounds(m, cell) == getGeometry(m, cell)

\* setVertexLocation(cell, x, y): moves the vertex if x or y differ.
setVertexLocation(st, cell, x, y) ==
    LET geo == getGeometry(st.model, cell)
        moved == geo # Null /\ (geo.x # x \/ geo.y # y)
    IN  [st EXCEPT !.model.cells[cell].geometry =
                        IF moved THEN [geo EXCEPT !.x = x, !.y = y] ELSE geo,
                   !.log = Logged(st, "setVertexLocation", cell, moved)]

\* setEdgeStyleEnabled(edge, value): sets the noEdgeStyle flag of the style
\* to '0' if value, to '1' otherwise.
setEdgeStyleEnabled(st, e, value) ==
    LET flag == IF value THEN Str("0") ELSE Str("1")
    IN  [st EXCEPT !.model.cells[e].style.noEdgeStyle = flag,
                   !.log = Logged(st, "setEdgeStyleEnabled", e,
                                  st.model.cells[e].style.noEdgeStyle # flag)]

--------------------------------------------------------------------------
(* mxCircleLayout *)

\* Lengths on the circle are computed in thousandths.
\* Math.max and Math.min of two numbers.
MathMax(a, b) == IF a >= b THEN a ELSE b
MathMin(a, b) == IF a <= b THEN a ELSE b

\* Math.round of v thousandths: the nearest integer, halves rounded up.
MathRound(v) == (v + 500) \div 1000

\* Math.sin(i * phi) and Math.cos(i * phi) in thousandths, for
\* phi = 2 * Math.PI / n and 0 <= i < n <= 4.
MathSin(i, n) ==
    IF n = 3 THEN <<0, 866, -866>>[i + 1]
    ELSE IF n = 4 THEN <<0, 1000, 0, -1000>>[i + 1]
    ELSE 0
MathCos(i, n) ==
    IF n = 3 THEN <<1000, -500, -500>>[i + 1]
    ELSE IF n = 4 THEN <<1000, 0, -1000, 0>>[i + 1]
    ELSE <<1000, -1000>>[i + 1]

\* constructor(graph, radius) and the initial values of the fields.
mxCircleLayout(graph, radius) ==
    [graph |-> graph,
     radius |-> IF ~IsNullish(radius) THEN radius ELSE Num(100),
     moveCircle |-> FALSE,
     x0 |-> 0,
     y0 |-> 0,
     resetEdges |-> TRUE,
     disableEdgeStyle |-> TRUE]

\* getRadius(count, max), in thousandths:
\* Math.max((count * max) / Math.PI, this.radius).
getRadius(l, count, max) ==
    MathMax((count * max * 1000000) \div 3142, l.radius.v * 1000)

\* The loop of circle(): vertex i is moved if it is movable.
RECURSIVE CircleLoop(_, _, _, _, _, _)
CircleLoop(st, vertices, r, left, top, i) ==
    IF st.thrown \/ ~(i < Len(vertices)) THEN st
    ELSE LET s1 == Step(st)
             n == Len(vertices)
             cell == vertices[i + 1]
         IN  IF s1.thrown THEN s1
             ELSE IF isVertexMovable(s1.model, cell)
             THEN CircleLoop(setVertexLocation(s1, cell,
                        MathRound(left.v * 1000 + r + (r * MathSin(i, n)) \div 1000),
                        MathRound(top.v * 1000 + r + (r * MathCos(i, n)) \div 1000)),
                    vertices, r, left, top, i + 1)
             ELSE CircleLoop(s1, vertices, r, left, top, i + 1)

\* circle(vertices, r, left, top)
circle(st, vertices, r, left, top) == CircleLoop(st, vertices, r, left, top, 0)

\* The edge branch of the loop with the layout's flags ignored.
TraverseEdgeAlways(l, st, cell) ==
    setEdgeStyleEnabled(resetEdge(st, cell), cell, FALSE)

\* The edge branch of the loop of execute(): the edge is reset if resetEdges
\* and its edge style is disabled if disableEdgeStyle.
TraverseEdge(l, st, cell) ==
    LET s1 == IF l.resetEdges THEN resetEdge(st, cell) ELSE st
    IN  IF l.disableEdgeStyle THEN setEdgeStyleEnabled(s1, cell, FALSE) ELSE s1

\* The loop of execute() over the children of parent: a vertex that is not
\* ignored is collected, with the least y and x and the largest dimension
\* (reading the bounds of a vertex without geometry throws a TypeError); an
\* edge that is not ignored is traversed.
RECURSIVE ExecuteLoop(_, _, _, _, _)
ExecuteLoop(l, st, parent, i, acc) ==
    IF st.thrown \/ ~(i < getChildCount(st.model, parent)) THEN [st |-> st, acc |-> acc]
    ELSE LET s1 == Step(st)
             cell == getChildAt(s1.model, parent, i)
             bounds == getVertexBounds(s1.model, cell)
         IN  IF s1.thrown THEN [st |-> s1, acc |-> acc]
             ELSE IF ~isVertexIgnored(s1.model, cell)
             THEN IF bounds = Null
                  THEN [st |-> [s1 EXCEPT !.thrown = TRUE], acc |-> acc]
                  ELSE ExecuteLoop(l, s1, parent, i + 1,
                          [vertices |-> Append(acc.vertices, cell),
                           top |-> IF acc.top = Null THEN Num(bounds.y)
                                   ELSE Num(MathMin(acc.top.v, bounds.y)),
                           left |-> IF acc.left = Null THEN Num(bounds.x)
                                    ELSE Num(MathMin(acc.left.v, bounds.x)),
                           max |-> MathMax(acc.max, MathMax(bounds.width, bounds.height))])
             ELSE IF ~isEdgeIgnored(s1.model, cell)
             THEN ExecuteLoop(l, TraverseEdge(l, s1, cell), parent, i + 1, acc)
             ELSE ExecuteLoop(l, s1, parent, i + 1, acc)

\* The try block of execute(): the loop over the children, then circle().
ExecuteTry(l, st, parent) ==
    LET loop == ExecuteLoop(l, st, parent, 0,
                    [vertices |-> << >>, top |-> Null, left |-> Null, max |-> 0])
        r == getRadius(l, Len(loop.acc.vertices), loop.acc.max)
        left == IF l.moveCircle THEN Num(l.x0) ELSE loop.acc.left
        top == IF l.moveCircle THEN Num(l.y0) ELSE loop.acc.top
    IN  IF loop.st.thrown THEN loop.st
        ELSE circle(loop.st, loop.acc.vertices, r, left, top)

\* execute(parent) with endUpdate() after the try block, not in a finally
\* clause.
executeNoFinally(l, st, parent) ==
    IF l.graph = Null THEN [st EXCEPT !.thrown = TRUE]
    ELSE LET done == ExecuteTry(l, beginUpdate(st), parent)
         IN  IF done.thrown THEN done ELSE endUpdate(done)

\* execute(parent): beginUpdate(), the try block, and endUpdate() in the
\* finally clause. Without a graph, this.graph.getModel() throws a TypeError
\* before the update begins.
execute(l, st, parent) ==
    IF l.graph = Null THEN [st EXCEPT !.thrown = TRUE]
    ELSE endUpdate(ExecuteTry(l, beginUpdate(st), parent))

--------------------------------------------------------------------------
(* mxSwimlaneManager: the methods that update the graph model *)

\* The cell as isCellHorizontal sees it through the graph.
CellView(m, cell) ==
    [swimlane |-> isSwimlane(m, cell),
     style |-> IF cell = Null THEN Undefined ELSE getCellStyle(m, cell).horizontal]

\* isSwimlaneIgnored(swimlane)
isSwimlaneIgnored(m, swimlane) == ~isSwimlane(m, swimlane)

RECURSIVE resizeSwimlane(_, _, _, _, _, _)

\* The loop of resizeSwimlane() over the children of the swimlane.
RECURSIVE ResizeChildren(_, _, _, _, _, _, _)
ResizeChildren(mg, st, swimlane, w, h, horizontal, i) ==
    IF st.thrown \/ ~(i < getChildCount(st.model, swimlane)) THEN st
    ELSE ResizeChildren(mg,
            resizeSwimlane(mg, st, getChildAt(st.model, swimlane, i), w, h, horizontal),
            swimlane, w, h, horizontal, i + 1)

\* The try block of resizeSwimlane(): a swimlane that is not ignored and has
\* a geometry gets the height h under a horizontal parent, the width w
\* otherwise, if that differs; then every child is resized to w and h less
\* the swimlane's start size.
ResizeTry(mg, st, swimlane, w, h, parentHorizontal) ==
    LET s0 == Step(st)
        horizontal == isCellHorizontal(mg, CellView(s0.model, swimlane)).v
        geo == getGeometry(s0.model, swimlane)
        s1 == IF /\ ~isSwimlaneIgnored(s0.model, swimlane)
                 /\ geo # Null
                 /\ \/ parentHorizontal /\ geo.height # h
                    \/ ~parentHorizontal /\ geo.width # w
              THEN setGeometry(s0, swimlane,
                               IF parentHorizontal THEN [geo EXCEPT !.height = h]
                               ELSE [geo EXCEPT !.width = w])
              ELSE s0
        tmp == IF isSwimlane(s1.model, swimlane) THEN getStartSize(s1.model, swimlane)
               ELSE mxRectangle
    IN  IF s0.thrown THEN s0
        ELSE ResizeChildren(mg, s1, swimlane, w - tmp.width, h - tmp.height, horizontal, 0)

\* resizeSwimlane(swimlane, w, h, parentHorizontal): beginUpdate(), the try
\* block, and endUpdate() in the finally clause. Without a graph,
\* this.graph.getModel() throws a TypeError before the update begins.
resizeSwimlane(mg, st, swimlane, w, h, parentHorizontal) ==
    IF mg.graph = Null THEN [st EXCEPT !.thrown = TRUE]
    ELSE endUpdate(ResizeTry(mg, beginUpdate(st), swimlane, w, h, parentHorizontal))

\* The loop of swimlaneAdded(): the geometry of the first sibling swimlane
\* that has one, or null.
RECURSIVE ReferenceGeometry(_, _, _, _)
ReferenceGeometry(m, parent, swimlane, i) ==
    IF ~(i < getChildCount(m, parent)) THEN Null
    ELSE LET child == getChildAt(m, parent, i)
         IN  IF child # swimlane /\ ~isSwimlaneIgnored(m, child)
                /\ getGeometry(m, child) # Null
             THEN getGeometry(m, child)
             ELSE ReferenceGeometry(m, parent, swimlane, i + 1)

\* swimlaneAdded(swimlane): resizes the swimlane to the size of the first
\* sibling swimlane with a geometry. Without a graph, getGraph().getModel()
\* throws a TypeError.
swimlaneAdded(mg, st, swimlane) ==
    IF mg.graph = Null THEN [st EXCEPT !.thrown = TRUE]
    ELSE LET parent == getParent(st.model, swimlane)
             geo == ReferenceGeometry(st.model, parent, swimlane, 0)
         IN  IF geo # Null
             THEN resizeSwimlane(mg, st, swimlane, geo.width, geo.height,
                     IF parent # Null
                     THEN isCellHorizontal(mg, CellView(st.model, parent)).v
                     ELSE mg.horizontal)
             ELSE st

\* The loop of cellsAdded() over the cells.
RECURSIVE CellsAddedLoop(_, _, _, _)
CellsAddedLoop(mg, st, cells, i) ==
    IF st.thrown \/ ~(i < Length(cells)) THEN st
    ELSE LET s1 == Step(st)
             cell == Index(cells, i)
         IN  IF s1.thrown THEN s1
             ELSE IF ~isSwimlaneIgnored(s1.model, cell)
             THEN CellsAddedLoop(mg, swimlaneAdded(mg, s1, cell), cells, i + 1)
             ELSE CellsAddedLoop(mg, s1, cells, i + 1)

\* cellsAdded(cells): nothing for null; otherwise beginUpdate(), the loop,
\* and endUpdate() in the finally clause.
cellsAdded(mg, st, cells) ==
    IF cells = Null THEN st
    ELSE IF mg.graph = Null THEN [st EXCEPT !.thrown = TRUE]
    ELSE endUpdate(CellsAddedLoop(mg, beginUpdate(st), cells, 0))

\* The while loop of cellsResized(): climbs from current to the root, adding
\* the start size of every swimlane above; yields the root reached (top),
\* the size and the value of current at the end (null).
RECURSIVE Climb(_, _, _, _)
Climb(m, current, top, size) ==
    IF current = Null THEN [top |-> top, current |-> current, size |-> size]
    ELSE LET next == getParent(m, current)
             tmp == IF isSwimlane(m, next) THEN getStartSize(m, next) ELSE mxRectangle
         IN  Climb(m, next, current,
                   [width |-> size.width + tmp.width, height |-> size.height + tmp.height])

\* The loop of cellsResized() over the cells.
RECURSIVE CellsResizedLoop(_, _, _, _)
CellsResizedLoop(mg, st, cells, i) ==
    IF st.thrown \/ ~(i < Length(cells)) THEN st
    ELSE LET s1 == Step(st)
             cell == Index(cells, i)
             geo == getGeometry(s1.model, cell)
             c == Climb(s1.model, cell, cell, [width |-> geo.width, height |-> geo.height])
         IN  IF s1.thrown THEN s1
             ELSE IF ~isSwimlaneIgnored(s1.model, cell) /\ geo # Null
             THEN CellsResizedLoop(mg,
                     resizeSwimlane(mg, s1, c.top, c.size.width, c.size.height,
                         IF c.current # Null
                         THEN isCellHorizontal(mg, CellView(s1.model, c.current)).v
                         ELSE mg.horizontal),
                     cells, i + 1)
             ELSE CellsResizedLoop(mg, s1, cells, i + 1)

\* cellsResized(cells): nothing for null; otherwise beginUpdate(), the loop,
\* and endUpdate() in the finally clause.
cellsResized(mg, st, cells) ==
    IF cells = Null THEN st
    ELSE IF mg.graph = Null THEN [st EXCEPT !.thrown = TRUE]
    ELSE endUpdate(CellsResizedLoop(mg, beginUpdate(st), cells, 0))

\* How often the pair (name, funct) is among the graph's listeners.
Registered(g, name, funct) ==
    Cardinality({i \in 1..Len(listeners[g]) :
                    listeners[g][i] = [name |-> name, f |-> funct]})

\* addHandler and resizeHandler, the listeners the constructor creates.
addHandler(mg, st, cells) ==
    IF isEnabled(mg) /\ isAddEnabled(mg) THEN cellsAdded(mg, st, cells) ELSE st
resizeHandler(mg, st, cells) ==
    IF isEnabled(mg) /\ isResizeEnabled(mg) THEN cellsResized(mg, st, cells) ELSE st

--------------------------------------------------------------------------
(* The specification of the operations that update a graph model: either a
   circle layout over a parent and its children, or a swimlane manager over
   a tree of swimlanes. *)

\* A step of the operation throws after Fuels steps, or none does (0).
MaxFuel == 3
Fuels == 0..MaxFuel

\* The references to cells.
CellRef(name, i) == Ref(<<name, i>>)

\* A geometry; points is the number of points of an edge.
Geometry(x, y, width, height, points) ==
    [x |-> x, y |-> y, width |-> width, height |-> height, points |-> points]

\* A cell of the model, here a visible, movable vertex.
Cell(parent, children, geometry) ==
    [parent |-> parent, children |-> children, geometry |-> geometry,
     vertex |-> TRUE, edge |-> FALSE, visible |-> TRUE, movable |-> TRUE,
     connected |-> FALSE, swimlane |-> FALSE, startSize |-> mxRectangle,
     style |-> [horizontal |-> Undefined, noEdgeStyle |-> Undefined]]

\* The kinds of children a layout parent has: a vertex that can be moved,
\* one that cannot, one that is not visible, one without geometry, an edge
\* between two terminals (with two points) and an edge without terminals.
Kinds == {"movable", "fixed", "hidden", "bare", "edge", "loose"}

\* The i-th child of the layout parent, of the given kind.
Child(kind, parent, i) ==
    LET v == Cell(parent, << >>, Geometry(i - 1, 0, 1, 1, 0))
        e == [v EXCEPT !.vertex = FALSE, !.edge = TRUE, !.movable = FALSE,
                       !.geometry = Geometry(0, 0, 0, 0, 2)]
    IN  CASE kind = "movable" -> v
          [] kind = "fixed" -> [v EXCEPT !.movable = FALSE]
          [] kind = "hidden" -> [v EXCEPT !.visible = FALSE]
          [] kind = "bare" -> [v EXCEPT !.geometry = Null]
          [] kind = "edge" -> [e EXCEPT !.connected = TRUE]
          [] kind = "loose" -> e

\* The model of a parent p with children of the given kinds, beside a cell q.
LayoutModel(kinds, level) ==
    LET p == CellRef("p", 0)
        q == CellRef("q", 0)
        ids == {p, q} \cup {CellRef("k", i) : i \in DOMAIN kinds}
    IN  [updateLevel |-> level,
         cells |-> [c \in ids |->
            IF c = p THEN Cell(Null, [i \in DOMAIN kinds |-> CellRef("k", i)], Null)
            ELSE IF c = q THEN Cell(Null, << >>, Geometry(0, 0, 1, 1, 0))
            ELSE Child(kinds[c.v[2]], p, c.v[2])]]

\* A swimlane with the given style entry for horizontal: its start size
\* lies along its height if horizontal, along its width otherwise.
Swimlane(cell, horizontal) ==
    [cell EXCEPT !.swimlane = TRUE,
                 !.style.horizontal = horizontal,
                 !.startSize = IF LooselyEqualsOne(getValue(horizontal, Num(1)))
                               THEN [width |-> 0, height |-> 1]
                               ELSE [width |-> 1, height |-> 0]]

\* The model of a tree p > (a, b), the cells in lanes being swimlanes.
SwimlaneModel(lanes, geometryOfA, horizontalOfP, level) ==
    LET p == CellRef("p", 0)
        a == CellRef("a", 0)
        b == CellRef("b", 0)
        plain == [x \in {p, a, b} |->
                    IF x = p THEN Cell(Null, <<a, b>>, Geometry(0, 0, 3, 3, 0))
                    ELSE IF x = a THEN Cell(p, << >>, geometryOfA)
                    ELSE Cell(p, << >>, Geometry(0, 0, 2, 2, 0))]
    IN  [updateLevel |-> level,
         cells |-> [x \in {p, a, b} |->
                      IF x \in lanes
                      THEN Swimlane(plain[x], IF x = p THEN horizontalOfP ELSE Undefined)
                      ELSE plain[x]]]

SwimlaneCells == {CellRef("p", 0), CellRef("a", 0), CellRef("b", 0)}

\* The arrays of cells the manager is called with.
CellLists ==
    {Null, Arr(<< >>), Arr(<<CellRef("a", 0), CellRef("b", 0)>>)}
        \cup {Arr(<<x>>) : x \in SwimlaneCells}

\* The sizes resizeSwimlane() is called with.
Sizes == {[w |-> 3, h |-> 3], [w |-> 1, h |-> 3]}

LayoutInit ==
    /\ \E n \in 0..MaxChildren, radius \in {Undefined, Num(2)},
          moveCircle \in BOOLEAN, resetEdges \in BOOLEAN, disableEdgeStyle \in BOOLEAN :
          \E kinds \in [1..n -> Kinds], level \in Levels :
              /\ layout = [mxCircleLayout(Ref("g1"), radius) EXCEPT
                              !.moveCircle = moveCircle,
                              !.resetEdges = resetEdges,
                              !.disableEdgeStyle = disableEdgeStyle]
              /\ model = LayoutModel(kinds, level)
    /\ mgr = Null
    /\ listeners = << >>

SwimlaneInit ==
    /\ \E lanes \in SUBSET SwimlaneCells, level \in Levels,
          geometryOfA \in {Null, Geometry(0, 0, 1, 1, 0)},
          horizontalOfP \in {Undefined, Num(0)},
          horizontal \in BOOLEAN, addEnabled \in BOOLEAN :
          \* Of the two handlers, one is enabled.
          LET m == mxSwimlaneManager([g \in Graphs |-> << >>], Ref("g1"), horizontal,
                                     addEnabled, ~addEnabled)
          IN  /\ mgr = m.mgr
              /\ listeners = m.listeners
              /\ model = SwimlaneModel(lanes, geometryOfA, horizontalOfP, level)
    /\ layout = Null

GraphInit ==
    /\ LayoutInit \/ SwimlaneInit
    /\ writes = [n |-> 0, level |-> model.updateLevel, log |-> << >>]
    /\ last = Op("new", << >>)
    /\ ret = NoValue
    /\ EdgeAtRest
    /\ DictAtRest
    /\ XmlAtRest

\* An operation on the model: st is the execution when it ends.
GraphStep(op, st) ==
    /\ writes.n < MaxOps
    /\ model' = st.model
    /\ writes' = [n |-> writes.n + 1, level |-> model.updateLevel, log |-> st.log]
    /\ last' = op
    /\ ret' = IF st.thrown THEN Thrown("Error") ELSE NoValue
    /\ UNCHANGED <<layout, ManagerVars, EdgeVars, DictVars, XmlVars>>

Execute ==
    /\ layout # Null
    /\ \E fuel \in Fuels :
          GraphStep(Op("execute", <<CellRef("p", 0)>>),
                    execute(layout, Execution(model, fuel), CellRef("p", 0)))

CellsAdded ==
    /\ mgr # Null
    /\ \E cells \in CellLists, fuel \in Fuels :
          GraphStep(Op("cellsAdded", <<cells>>),
                    cellsAdded(mgr, Execution(model, fuel), cells))

SwimlaneAdded ==
    /\ mgr # Null
    /\ \E swimlane \in SwimlaneCells, fuel \in Fuels :
          GraphStep(Op("swimlaneAdded", <<swimlane>>),
                    swimlaneAdded(mgr, Execution(model, fuel), swimlane))

CellsResized ==
    /\ mgr # Null
    /\ \E cells \in CellLists, fuel \in Fuels :
          GraphStep(Op("cellsResized", <<cells>>),
                    cellsResized(mgr, Execution(model, fuel), cells))

ResizeSwimlane ==
    /\ mgr # Null
    /\ \E swimlane \in SwimlaneCells, size \in Sizes,
          parentHorizontal \in BOOLEAN, fuel \in Fuels :
          GraphStep(Op("resizeSwimlane", <<swimlane, size.w, size.h, parentHorizontal>>),
                    resizeSwimlane(mgr, Execution(model, fuel), swimlane, size.w, size.h,
                                   parentHorizontal))

\* The graph fires ADD_CELLS: the manager's addHandler runs if registered.
FireAddCells ==
    /\ mgr # Null
    /\ mgr.graph # Null
    /\ Registered(mgr.graph, ADD_CELLS, mgr.addHandler) > 0
    /\ \E cells \in CellLists, fuel \in Fuels :
          GraphStep(Op("addHandler", <<cells>>),
                    addHandler(mgr, Execution(model, fuel), cells))

\* The graph fires CELLS_RESIZED: the manager's resizeHandler runs if
\* registered.
FireCellsResized ==
    /\ mgr # Null
    /\ mgr.graph # Null
    /\ Registered(mgr.graph, CELLS_RESIZED, mgr.resizeHandler) > 0
    /\ \E cells \in CellLists, fuel \in Fuels :
          GraphStep(Op("resizeHandler", <<cells>>),
                    resizeHandler(mgr, Execution(model, fuel), cells))

GraphNext ==
    \/ Execute
    \/ CellsAdded
    \/ SwimlaneAdded
    \/ CellsResized
    \/ ResizeSwimlane
    \/ FireAddCells
    \/ FireCellsResized

GraphSpec == GraphInit /\ [][GraphNext]_vars

--------------------------------------------------------------------------
(* Properties of mxGraphHierarchyEdge, checked under Spec *)

\* temp holds one slot per intermediate rank.
OneSlotPerIntermediateRank ==
    Length(edge.temp) = IntermediateRanks(edge.minRank, edge.maxRank)

\* The last call's layer argument is an intermediate rank of the edge.
AtIntermediateRank ==
    last.args[1] \in (edge.minRank + 1)..(edge.maxRank - 1)

\* C1: two invert() calls in succession leave source, target and isReversed
\* as they were before the first of them.
C1_InvertTwiceRestores ==
    (last.op = "invert" /\ last.run = 2) => Direction(edge) = last.start

C1_Witness ==
    /\ last.op = "invert"
    /\ last.run = 2
    /\ edge.source # edge.target
    /\ Direction(edge) = last.start

\* C2 as stated: with one slot of temp per intermediate rank,
\* getNextLayerConnectedCells(rank) returns [source] (the edge's source
\* field) for rank = maxRank - 1 and [this] for every other intermediate rank.
C2_Original ==
    (/\ last.op = "getNextLayerConnectedCells"
     /\ OneSlotPerIntermediateRank
     /\ AtIntermediateRank)
    => ret = IF last.args[1] = edge.maxRank - 1
             THEN Arr(<<edge.source>>) ELSE Arr(<<This>>)

\* C2 as amended: with one slot of temp per intermediate rank,
\* getNextLayerConnectedCells(rank) returns, for rank = maxRank - 1, the list
\* holding the source the edge had when the method was first called, which is
\* the edge's source field when invert() was called an even number of times
\* since; and [this] for every other intermediate rank.
C2_NextCellsAsBuilt ==
    (/\ last.op = "getNextLayerConnectedCells"
     /\ OneSlotPerIntermediateRank
     /\ AtIntermediateRank)
    => /\ ret = IF last.args[1] = edge.maxRank - 1
                THEN Arr(<<built.next.cell>>) ELSE Arr(<<This>>)
       /\ (invertCount - built.next.at) % 2 = 0 => built.next.cell = edge.source

C2_Witness ==
    /\ last.op = "getNextLayerConnectedCells"
    /\ OneSlotPerIntermediateRank
    /\ Length(edge.temp) >= 2
    /\ last.args[1] = edge.maxRank - 1
    /\ invertCount = built.next.at
    /\ ret = Arr(<<edge.source>>)

\* C3 as stated: with one slot of temp per intermediate rank,
\* getPreviousLayerConnectedCells(rank) returns [target] (the edge's target
\* field) for rank = minRank + 1 and [this] for every other intermediate rank.
C3_Original ==
    (/\ last.op = "getPreviousLayerConnectedCells"
     /\ OneSlotPerIntermediateRank
     /\ AtIntermediateRank)
    => ret = IF last.args[1] = edge.minRank + 1
             THEN Arr(<<edge.target>>) ELSE Arr(<<This>>)

\* C3 as amended: with one slot of temp per intermediate rank,
\* getPreviousLayerConnectedCells(rank) returns, for rank = minRank + 1, the
\* list holding the target the edge had when the method was first called,
\* which is the edge's target field when invert() was called an even number
\* of times since; and [this] for every other intermediate rank.
C3_PreviousCellsAsBuilt ==
    (/\ last.op = "getPreviousLayerConnectedCells"
     /\ OneSlotPerIntermediateRank
     /\ AtIntermediateRank)
    => /\ ret = IF last.args[1] = edge.minRank + 1
                THEN Arr(<<built.previous.cell>>) ELSE Arr(<<This>>)
       /\ (invertCount - built.previous.at) % 2 = 0 => built.previous.cell = edge.target

C3_Witness ==
    /\ last.op = "getPreviousLayerConnectedCells"
    /\ OneSlotPerIntermediateRank
    /\ Length(edge.temp) >= 2
    /\ last.args[1] = edge.minRank + 1
    /\ invertCount = built.previous.at
    /\ ret = Arr(<<edge.target>>)

\* The edge spans ranks 0..2 with one slot of temp per intermediate rank, and
\* the last call was getNextLayerConnectedCells(layer).
NextCalledOnSpanZeroToTwo(layer) ==
    /\ last.op = "getNextLayerConnectedCells"
    /\ edge.minRank = 0
    /\ edge.maxRank = 2
    /\ OneSlotPerIntermediateRank
    /\ last.args[1] = layer

\* The number of ranks the edge spans, minRank and maxRank included.
RanksSpanned == edge.maxRank - edge.minRank + 1

\* C4 as stated: on an edge with minRank = 0 and maxRank = 2,
\* getNextLayerConnectedCells(1) returns [this] and
\* getNextLayerConnectedCells(2) returns [source]; an edge spanning N ranks
\* has N entries in each adjacency cache.
C4_Original ==
    /\ NextCalledOnSpanZeroToTwo(1) => ret = Arr(<<This>>)
    /\ NextCalledOnSpanZeroToTwo(2) => ret = Arr(<<edge.source>>)
    /\ (OneSlotPerIntermediateRank /\ edge.nextLayerConnectedCells # Null)
       => Length(edge.nextLayerConnectedCells) = RanksSpanned
    /\ (OneSlotPerIntermediateRank /\ edge.previousLayerConnectedCells # Null)
       => Length(edge.previousLayerConnectedCells) = RanksSpanned

\* C4 as amended: on an edge with minRank = 0 and maxRank = 2 (one slot of
\* temp, for rank 1), getNextLayerConnectedCells(1) returns the list holding
\* the source captured at the first call and getNextLayerConnectedCells(2)
\* returns undefined; an edge spanning N ranks has one entry per intermediate
\* rank in each adjacency cache, N - 2 of them (none when N < 3).
C4_OneEntryPerIntermediateRank ==
    /\ NextCalledOnSpanZeroToTwo(1) => ret = Arr(<<built.next.cell>>)
    /\ NextCalledOnSpanZeroToTwo(2) => ret = Undefined
    /\ (OneSlotPerIntermediateRank /\ edge.nextLayerConnectedCells # Null)
       => Length(edge.nextLayerConnectedCells)
            = IF RanksSpanned < 3 THEN 0 ELSE RanksSpanned - 2
    /\ (OneSlotPerIntermediateRank /\ edge.previousLayerConnectedCells # Null)
       => Length(edge.previousLayerConnectedCells)
            = IF RanksSpanned < 3 THEN 0 ELSE RanksSpanned - 2

C4_Witness ==
    /\ NextCalledOnSpanZeroToTwo(2)
    /\ ret = Undefined
    /\ Index(edge.nextLayerConnectedCells, 0) = Arr(<<edge.source>>)
    /\ Length(edge.nextLayerConnectedCells) = 1

\* C5 as stated: whatever was called before, the adjacency caches hold the
\* edge's current endpoints, so that the next getNextLayerConnectedCells at
\* the topmost intermediate rank returns [source] and the next
\* getPreviousLayerConnectedCells at the bottom-most one returns [target].
C5_Original ==
    /\ (edge.nextLayerConnectedCells # Null /\ Length(edge.temp) > 0)
       => getNextLayerConnectedCells(edge, edge.minRank + Length(edge.temp)).ret
            = Arr(<<edge.source>>)
    /\ (edge.previousLayerConnectedCells # Null /\ Length(edge.temp) > 0)
       => getPreviousLayerConnectedCells(edge, edge.minRank + 1).ret
            = Arr(<<edge.target>>)

\* C5 as amended: invert() does not invalidate the adjacency caches. A cache
\* once built stays, and the next getNextLayerConnectedCells at the topmost
\* intermediate rank returns the source captured when the cache was built:
\* the current source after an even number of invert() calls since, the
\* current target after an odd number. The same holds of
\* getPreviousLayerConnectedCells at the bottom-most intermediate rank and
\* the target.
C5_CachesKeepBuiltEndpoints ==
    /\ built.next.cell # Null => edge.nextLayerConnectedCells # Null
    /\ built.previous.cell # Null => edge.previousLayerConnectedCells # Null
    /\ (edge.nextLayerConnectedCells # Null /\ Length(edge.temp) > 0)
       => getNextLayerConnectedCells(edge, edge.minRank + Length(edge.temp)).ret
            = Arr(<<IF (invertCount - built.next.at) % 2 = 0
                    THEN edge.source ELSE edge.target>>)
    /\ (edge.previousLayerConnectedCells # Null /\ Length(edge.temp) > 0)
       => getPreviousLayerConnectedCells(edge, edge.minRank + 1).ret
            = Arr(<<IF (invertCount - built.previous.at) % 2 = 0
                    THEN edge.target ELSE edge.source>>)

C5_Witness ==
    /\ last.op = "getNextLayerConnectedCells"
    /\ Length(edge.temp) > 0
    /\ last.args[1] = edge.maxRank - 1
    /\ (invertCount - built.next.at) % 2 = 1
    /\ edge.source # edge.target
    /\ ret = Arr(<<edge.target>>)

\* C6: setGeneralPurposeVariable(r, v) at an intermediate rank r writes v to
\* temp[r - minRank - 1], so that getGeneralPurposeVariable(r) returns v, and
\* leaves the other ranks' scratch values and the length of temp unchanged.
C6_ScratchSlots ==
    [][/\ last'.op = "setGeneralPurposeVariable"
          => LET r == last'.args[1]
                 v == last'.args[2]
             IN  r \in (edge.minRank + 1)..(edge.maxRank - 1)
                 => /\ getGeneralPurposeVariable(edge', r) = v
                    /\ edge'.temp.v[r - edge.minRank] = v
                    /\ \A q \in (edge.minRank + 1)..(edge.maxRank - 1) :
                          q # r => getGeneralPurposeVariable(edge', q)
                                     = getGeneralPurposeVariable(edge, q)
                    /\ Length(edge'.temp) = Length(edge.temp)
       /\ (/\ last.op = "setGeneralPurposeVariable"
           /\ last'.op = "getGeneralPurposeVariable"
           /\ last'.args[1] = last.args[1])
          => ret' = last.args[2]]_vars

C6_Witness ==
    /\ last.op = "setGeneralPurposeVariable"
    /\ Length(edge.temp) = 2
    /\ last.args[1] = edge.minRank + 2
    /\ last.args[2] = Num(1)
    /\ edge.temp = Arr(<<Num(0), Num(1)>>)

\* C7: getCoreCell() returns the first wrapped graph edge when edges is not
\* empty and null when edges is empty, also after invert(); and it returns
\* null on the edge with its edges field set to null.
C7_CoreCellIsFirst ==
    /\ last.op = "getCoreCell"
       => ret = IF edge.edges.v = << >> THEN Null ELSE edge.edges.v[1]
    /\ getCoreCell([edge EXCEPT !.edges = Null]) = Null

C7_Witness ==
    /\ last.op = "getCoreCell"
    /\ invertCount > 0
    /\ Length(edge.edges) = 2
    /\ ret = edge.edges.v[1]
    /\ ret # edge.edges.v[2]

--------------------------------------------------------------------------
(* Properties of mxDictionary, checked under DictSpec *)

\* C8: the dictionary agrees with a reference map after every operation:
\* get, put and remove return what the reference holds under the key, put
\* makes get return the value, remove and clear make get return undefined,
\* and put and remove leave every other key's value alone.
C8_RefinesMap ==
    [][/\ \A k \in DictKeys : get(dict', identity', k).ret = ref'[k]
       /\ last'.op \in {"get", "put", "remove"} => ret' = ref[last'.args[1]]
       /\ last'.op = "put"
          => get(dict', identity', last'.args[1]).ret = last'.args[2]
       /\ last'.op = "remove"
          => get(dict', identity', last'.args[1]).ret = Undefined
       /\ last'.op = "clear"
          => \A k \in DictKeys : get(dict', identity', k).ret = Undefined
       /\ last'.op \in {"put", "remove"}
          => \A k \in DictKeys \ {last'.args[1]} :
                get(dict', identity', k).ret = get(dict, identity, k).ret]_vars

C8_Witness ==
    /\ last.op = "remove"
    /\ ret \in Values
    /\ Lookup(last.args[1]) = Undefined
    /\ \E k \in DictKeys : Lookup(k) \in Values

--------------------------------------------------------------------------
(* Properties of mxSwimlaneManager, checked under ManagerSpec *)

\* C9: isCellHorizontal(cell) returns isHorizontal() when the cell is not a
\* swimlane, and for a swimlane whether its horizontal style (default 1) is 1.
C9_CellHorizontal ==
    (last.op = "isCellHorizontal" /\ mgr.graph # Null)
    => ret = IF last.args[1].swimlane
             THEN Bool(getValue(last.args[1].style, Num(1)) = Num(1))
             ELSE Bool(isHorizontal(mgr))

\* How often funct is among the graph's listeners, under any name.
Listening(g, funct) ==
    Cardinality({i \in 1..Len(listeners[g]) : listeners[g][i].f = funct})

\* C10: addHandler (for ADD_CELLS) and resizeHandler (for CELLS_RESIZED) are
\* registered once each on the graph the manager holds and on no other
\* graph; after destroy() on none, and getGraph() returns null.
C10_HandlersFollowGraph ==
    /\ \A g \in Graphs :
          LET n == IF mgr.graph = g THEN 1 ELSE 0
          IN  /\ Registered(g, ADD_CELLS, mgr.addHandler) = n
              /\ Listening(g, mgr.addHandler) = n
              /\ Registered(g, CELLS_RESIZED, mgr.resizeHandler) = n
              /\ Listening(g, mgr.resizeHandler) = n
    /\ last.op = "destroy"
       => /\ getGraph(mgr) = Null
          /\ \A g \in Graphs : Listening(g, mgr.addHandler) = 0
                               /\ Listening(g, mgr.resizeHandler) = 0

C10_Witness ==
    /\ last.op = "setGraph"
    /\ last.args[1] = Ref("g2")
    /\ mgr.graph = Ref("g2")
    /\ Registered(Ref("g2"), ADD_CELLS, mgr.addHandler) = 1
    /\ Listening(Ref("g1"), mgr.addHandler) = 0
    /\ Len(listeners[Ref("g1")]) = 1

--------------------------------------------------------------------------
(* Properties of mxXmlRequest, checked under XmlSpec *)

\* Every callback invoked so far was the onload given to send(), called with
\* the mxXmlRequest while its request was at readyState 4; so onerror was
\* never invoked.
OnlyOnloadWhenReady ==
    \A k \in DOMAIN calls :
        /\ calls[k].f = Ref("onload")
        /\ calls[k].arg = This
        /\ calls[k].readyState = 4

\* C11 as stated: after a single send(), onload is invoked only at readyState
\* 4 and with the mxXmlRequest, at most once whatever events arrive, and
\* onerror is never invoked.
C11_Original ==
    Len(xhrs) = 1 => (OnlyOnloadWhenReady /\ Len(calls) <= 1)

\* C11 as amended: after a single send(), onload is invoked only at
\* readyState 4 and with the mxXmlRequest, and onerror never; an invocation
\* of onload that returns clears the handler and is the last one, whatever
\* events arrive, while one that throws leaves the handler installed.
C11_OnloadUntilItReturns ==
    Len(xhrs) = 1 =>
        /\ OnlyOnloadWhenReady
        /\ \A k \in DOMAIN calls :
              IF calls[k].outcome = "return"
              THEN k = Len(calls) /\ xhrs[1].onreadystatechange = Null
              ELSE k < Len(calls) \/ xhrs[1].onreadystatechange = Function(calls[k].f)

\* onload returned once, and a further readystatechange event at readyState 4
\* arrived and found the handler cleared.
C11_Witness ==
    /\ Len(xhrs) = 1
    /\ Len(calls) = 1
    /\ calls[1].outcome = "return"
    /\ last.op = "readystatechange"
    /\ last.args = <<1, 4, FALSE>>

--------------------------------------------------------------------------
(* The frame of invert(), checked under Spec *)

\* C13: invert() swaps source and target, toggles isReversed and leaves
\* minRank, maxRank, temp, edges and ids as they were; isReversed is true
\* exactly when invert() was called an odd number of times since
\* construction.
C13_InvertFrame ==
    /\ [](edge.isReversed <=> invertCount % 2 = 1)
    /\ [][last'.op = "invert" =>
            /\ edge'.source = edge.target
            /\ edge'.target = edge.source
            /\ edge'.isReversed = ~edge.isReversed
            /\ edge'.minRank = edge.minRank
            /\ edge'.maxRank = edge.maxRank
            /\ edge'.temp = edge.temp
            /\ edge'.edges = edge.edges
            /\ edge'.ids = edge.ids]_vars

\* invert() was called twice on an edge with graph edges and with a scratch
\* slot that had been written.
C13_Witness ==
    /\ last.op = "invert"
    /\ invertCount = 2
    /\ ~edge.isReversed
    /\ Length(edge.edges) > 0
    /\ \E i \in 0..(Length(edge.temp) - 1) : Index(edge.temp, i) = Num(1)

--------------------------------------------------------------------------
(* Properties of the operations that update a graph model, checked under
   GraphSpec *)

\* The children of the layout parent before the operation.
ChildrenOfParent == {model.cells[last'.args[1]].children[i] :
                        i \in DOMAIN model.cells[last'.args[1]].children}

\* The children execute() moves, and the edges it traverses.
MovableVertices ==
    {c \in ChildrenOfParent : ~isVertexIgnored(model, c) /\ isVertexMovable(model, c)}
TraversedEdges ==
    {c \in ChildrenOfParent : isVertexIgnored(model, c) /\ ~isEdgeIgnored(model, c)}

\* How often the last operation made the call on the cell.
CallsOn(log, call, cell) ==
    Cardinality({k \in DOMAIN log : log[k].call = call /\ log[k].cell = cell})

\* What execute() does to the cells that are not traversed edges: it calls
\* setVertexLocation only for the children of parent that are not
\* vertex-ignored and are movable, at most once each; it never resets or
\* restyles a cell that is not a traversed edge; every cell that is neither
\* such a vertex nor a traversed edge is unchanged, and of such a vertex only
\* the location changes.
ExecuteFrame(log) ==
    \A c \in DOMAIN model.cells :
        /\ CallsOn(log, "setVertexLocation", c) <= (IF c \in MovableVertices THEN 1 ELSE 0)
        /\ CallsOn(log, "resetEdge", c) <= (IF c \in TraversedEdges THEN 1 ELSE 0)
        /\ CallsOn(log, "setEdgeStyleEnabled", c) <= (IF c \in TraversedEdges THEN 1 ELSE 0)
        /\ CallsOn(log, "setGeometry", c) = 0
        /\ c \notin (MovableVertices \cup TraversedEdges)
           => model'.cells[c] = model.cells[c]
        /\ c \in MovableVertices
           => model'.cells[c] =
                 [model.cells[c] EXCEPT
                     !.geometry.x = model'.cells[c].geometry.x,
                     !.geometry.y = model'.cells[c].geometry.y]

\* The traversed edge has its points reset exactly when resetEdges is true
\* and its edge style disabled exactly when disableEdgeStyle is true.
EdgeTraversed(log, c) ==
    /\ CallsOn(log, "resetEdge", c) = (IF layout.resetEdges THEN 1 ELSE 0)
    /\ CallsOn(log, "setEdgeStyleEnabled", c) = (IF layout.disableEdgeStyle THEN 1 ELSE 0)
    /\ model'.cells[c] =
          [model.cells[c] EXCEPT
              !.geometry.points = IF layout.resetEdges THEN 0 ELSE @,
              !.style.noEdgeStyle = IF layout.disableEdgeStyle THEN Str("1") ELSE @]

\* C12 as stated: execute(parent) calls setVertexLocation only for the
\* children of parent that are not vertex-ignored and are movable, at most
\* once each; for every child that is vertex-ignored and not edge-ignored it
\* resets the points exactly when resetEdges is true and disables the edge
\* style exactly when disableEdgeStyle is true; no other cell is modified.
C12_Original ==
    [][last'.op = "execute" =>
        /\ ExecuteFrame(writes'.log)
        /\ \A c \in TraversedEdges : EdgeTraversed(writes'.log, c)]_vars

\* C12: execute(parent) calls setVertexLocation only for the children of
\* parent that are not vertex-ignored and are movable, at most once each, and
\* modifies no cell but these and the children that are vertex-ignored and
\* not edge-ignored; such an edge is reset at most once and only if
\* resetEdges is true, its edge style is disabled at most once and only if
\* disableEdgeStyle is true, and nothing else of it changes; when execute()
\* returns, every such edge has been reset exactly when resetEdges is true
\* and has its edge style disabled exactly when disableEdgeStyle is true,
\* while an execute() that throws may have left such edges as they were.
C12_ExecuteFrame ==
    [][last'.op = "execute" =>
        LET log == writes'.log IN
        /\ ExecuteFrame(log)
        /\ \A c \in TraversedEdges :
              /\ CallsOn(log, "resetEdge", c) <= (IF layout.resetEdges THEN 1 ELSE 0)
              /\ CallsOn(log, "setEdgeStyleEnabled", c)
                    <= (IF layout.disableEdgeStyle THEN 1 ELSE 0)
              /\ model'.cells[c] =
                    [model.cells[c] EXCEPT
                        !.geometry.points =
                            IF CallsOn(log, "resetEdge", c) = 1 THEN 0 ELSE @,
                        !.style.noEdgeStyle =
                            IF CallsOn(log, "setEdgeStyleEnabled", c) = 1
                            THEN Str("1") ELSE @]
              /\ ret' = NoValue => EdgeTraversed(log, c)]_vars

\* execute() returned after moving a vertex and resetting an edge whose edge
\* style it left alone.
C12_Witness ==
    /\ last.op = "execute"
    /\ ret = NoValue
    /\ layout.resetEdges /\ ~layout.disableEdgeStyle
    /\ \E i, j \in DOMAIN writes.log :
          /\ writes.log[i].call = "resetEdge" /\ writes.log[i].wrote
          /\ model.cells[writes.log[i].cell].style.noEdgeStyle = Undefined
          /\ writes.log[j].call = "setVertexLocation" /\ writes.log[j].wrote

\* The number of calls of the given kind among the first n of the log.
CallsUpTo(log, call, n) == Cardinality({k \in 1..n : log[k].call = call})

\* The operations that open an update.
Bracketing == {"execute", "cellsAdded", "cellsResized", "resizeSwimlane",
               "swimlaneAdded", "addHandler", "resizeHandler"}

\* C14: after execute, cellsAdded, cellsResized and resizeSwimlane (and the
\* operations that call them), also when a step inside has thrown, every
\* beginUpdate() of the operation has been followed by one matching
\* endUpdate(), the update level of the model is the one before the
\* operation, and every call that modifies a cell was made at a higher update
\* level than that.
C14_UpdatesBracketed ==
    last.op \in Bracketing =>
        /\ model.updateLevel = writes.level
        /\ CallsUpTo(writes.log, "beginUpdate", Len(writes.log))
              = CallsUpTo(writes.log, "endUpdate", Len(writes.log))
        /\ \A n \in DOMAIN writes.log :
              /\ CallsUpTo(writes.log, "beginUpdate", n)
                    >= CallsUpTo(writes.log, "endUpdate", n)
              /\ writes.log[n].call \notin {"beginUpdate", "endUpdate"}
                 => writes.log[n].level > writes.level

\* cellsResized() modified a cell inside nested updates and then a step
\* threw; the update level is back at 1.
C14_Witness ==
    /\ last.op = "cellsResized"
    /\ ret = Thrown("Error")
    /\ writes.level = 1
    /\ model.updateLevel = 1
    /\ CallsUpTo(writes.log, "beginUpdate", Len(writes.log)) >= 2
    /\ \E n \in DOMAIN writes.log :
          writes.log[n].call = "setGeometry" /\ writes.log[n].wrote

====
